---- MODULE Spec2Model ----
(***************************************************************************)
(* Model of demo_dn_modis_lst.js: a straight-line Earth Engine script that *)
(* builds MODIS land-surface-temperature collections for a fixed region,   *)
(* shows them on the map, charts them and exports a monthly composite.     *)
(*                                                                         *)
(* Images are modelled at one pixel.  A band is a record [val, mask].      *)
(* Thermal band values are held in fixed point, units of 1/Fix, so that    *)
(* multiply(0.02).add(-273.15) is exact; the integer bands (QC_Day,        *)
(* qaMask, millis, t, constant) are held as integers.  Timestamps are held *)
(* in days since 1970-01-01 instead of milliseconds (every timestamp of    *)
(* the model is a midnight, and the float cast of toFloat() is monotone    *)
(* and far finer than one day, so the order of timestamps is preserved).   *)
(* The field hist of an image is the list of the script's per-image        *)
(* functions that have been mapped over it.                                *)
(***************************************************************************)
EXTENDS Integers, Sequences, FiniteSets, TLC

VARIABLES pc, env, log, lastResp, catalog, fn

vars == <<pc, env, log, lastResp, catalog, fn>>

(***************************************************************************)
(* Bounds of the model                                                     *)
(***************************************************************************)
MaxImages == 2
MaxBit == 7
MaxValue == 255

(***************************************************************************)
(* Program constants                                                       *)
(***************************************************************************)
Fix == 10000
EpochYear == 1970
year == 2018
n_year == 4
bufferMeters == 10000
exportScale == 1000
start_date == <<2018, 4, 1>>
end_date == <<2021, 9, 30>>
crsString == "EPSG:4326"
folderName == "GEO874_2023FA"

(***************************************************************************)
(* Dates: ee.Date.fromYMD, ee.Date.advance(n, 'month'), ee.Date.millis     *)
(***************************************************************************)
IsLeap(y) == (y % 4 = 0 /\ y % 100 # 0) \/ y % 400 = 0

DaysInMonth(y, m) ==
    IF m = 2 THEN (IF IsLeap(y) THEN 29 ELSE 28)
    ELSE IF m \in {4, 6, 9, 11} THEN 30 ELSE 31

LeapYearsBefore(y) == (((y - 1) \div 4) - ((y - 1) \div 100)) + ((y - 1) \div 400)

DaysBeforeYear(y) ==
    (365 * (y - EpochYear)) + (LeapYearsBefore(y) - LeapYearsBefore(EpochYear))

RECURSIVE DaysBeforeMonth(_, _)
DaysBeforeMonth(y, m) ==
    IF m <= 1 THEN 0 ELSE DaysBeforeMonth(y, m - 1) + DaysInMonth(y, m - 1)

fromYMD(y, m, d) == <<y, m, d>>

millis(date) ==
    DaysBeforeYear(date[1]) + DaysBeforeMonth(date[1], date[2]) + (date[3] - 1)

Min(a, b) == IF a <= b THEN a ELSE b

advanceMonth_NoCarry(date, n) ==
    LET idx == (date[2] - 1) + n
        m   == (idx % 12) + 1
    IN  <<date[1], m, Min(date[3], DaysInMonth(date[1], m))>>

advanceMonth(date, n) ==
    LET idx == (date[2] - 1) + n
        y   == date[1] + (idx \div 12)
        m   == (idx % 12) + 1
    IN  <<y, m, Min(date[3], DaysInMonth(y, m))>>

(***************************************************************************)
(* Integer bit operations of the platform (ee.Number / ee.Image)           *)
(***************************************************************************)
leftShift(v, n) == v * (2 ^ n)

rightShift(v, n) == v \div (2 ^ n)

RECURSIVE bitwiseAnd(_, _)
bitwiseAnd(a, b) ==
    IF a = 0 \/ b = 0 THEN 0
    ELSE ((a % 2) * (b % 2)) + 2 * bitwiseAnd(a \div 2, b \div 2)

bitwiseExtract_NoSubtract(input, fromBit, toBit) ==
    LET maskSize == (1 + toBit) - fromBit
        mask     == leftShift(1, maskSize)
    IN  bitwiseAnd(rightShift(input, fromBit), mask)

bitwiseExtract(input, fromBit, toBit) ==
    LET maskSize == (1 + toBit) - fromBit
        mask     == leftShift(1, maskSize) - 1
    IN  bitwiseAnd(rightShift(input, fromBit), mask)

(***************************************************************************)
(* Images and bands                                                        *)
(***************************************************************************)
NoTime == -1

Band(v, m) == [val |-> v, mask |-> m]

BandNames(image) == DOMAIN image.bands

addBands(image, name, band) ==
    [image EXCEPT !.bands = (name :> band) @@ image.bands]

updateMask(image, m) ==
    [image EXCEPT !.bands =
        [b \in DOMAIN image.bands |->
            Band(image.bands[b].val, image.bands[b].mask /\ m)]]

select(image, names) ==
    [image EXCEPT !.bands = [b \in (DOMAIN image.bands) \cap names |-> image.bands[b]]]

Applied(image, f) == [image EXCEPT !.hist = Append(image.hist, f)]

scaleModisLst(image) ==
    LET lst == image.bands["LST_Day_1km"]
        thermalBands == Band((lst.val \div 50) - 2731500, lst.mask)
    IN  Applied(addBands(image, "LST_Day_1km", thermalBands), "scaleModisLst")

maskModisLst_NoEmissivityGap(image) ==
    LET qcDay == image.bands["QC_Day"]
        ok == bitwiseExtract(qcDay.val, 0, 5) <= 1
              /\ bitwiseExtract(qcDay.val, 6, 7) <= 1
        qaBand == Band(IF ok THEN 1 ELSE 0, qcDay.mask)
    IN  Applied(updateMask(addBands(image, "qaMask", qaBand),
                           qaBand.mask /\ qaBand.val # 0), "maskModisLst")

maskModisLst(image) ==
    LET qcDay == image.bands["QC_Day"]
        qaMask == bitwiseExtract(qcDay.val, 0, 1) <= 1
        dataQualityMask == bitwiseExtract(qcDay.val, 2, 3) = 0
        lstErrorMask == bitwiseExtract(qcDay.val, 6, 7) <= 1
        qaBand == Band(IF qaMask /\ dataQualityMask /\ lstErrorMask THEN 1 ELSE 0,
                       qcDay.mask)
    IN  Applied(updateMask(addBands(image, "qaMask", qaBand),
                           qaBand.mask /\ qaBand.val # 0), "maskModisLst")

addVariablesTime(image) ==
    LET millisBand == Band(image.time, TRUE)
    IN  Applied(addBands(image, "millis", millisBand), "addVariablesTime")

addVariables(image) ==
    LET years == Band(image.time, TRUE)
    IN  Applied(addBands(addBands(image, "t", years), "constant", Band(1, TRUE)),
                "addVariables")

addVariablesMcd43a4(image) ==
    LET b1 == image.bands["Nadir_Reflectance_Band1"]
        b2 == image.bands["Nadir_Reflectance_Band2"]
        ndvi == Band(IF b2.val + b1.val = 0 THEN 0
                     ELSE ((b2.val - b1.val) * Fix) \div (b2.val + b1.val),
                     b1.mask /\ b2.mask /\ (b2.val + b1.val # 0))
        years == Band(image.time, TRUE)
    IN  Applied(addBands(addBands(addBands(image, "NDVI", ndvi), "t", years),
                         "constant", Band(1, TRUE)), "addVariablesMcd43a4")

(***************************************************************************)
(* Regions                                                                 *)
(***************************************************************************)
NoRegion == [id |-> "none", kind |-> "none", buffer |-> 0, bounds |-> FALSE]

FeatureCollection(id) ==
    [id |-> id, kind |-> "FeatureCollection", buffer |-> 0, bounds |-> FALSE]

first(region) == [region EXCEPT !.kind = "Feature"]

buffer(region, meters) == [region EXCEPT !.buffer = @ + meters]

bounds(region) == [region EXCEPT !.bounds = TRUE]

(***************************************************************************)
(* Image collections                                                       *)
(***************************************************************************)
EmptyBands == [b \in {} |-> Band(0, FALSE)]

ImageCollection(id) ==
    [id |-> id, region |-> NoRegion, dateFrom |-> NoTime, dateTo |-> NoTime,
     hist |-> <<>>, images |-> catalog[id]]

filterBounds(c, region) ==
    LET Inside(image) == image.inRoi
    IN  [c EXCEPT !.region = region, !.images = SelectSeq(c.images, Inside)]

Max(a, b) == IF a >= b THEN a ELSE b

filterDate_InclusiveEnd(c, start, end) ==
    LET InRange(image) == millis(start) <= image.time /\ image.time <= millis(end)
    IN  [c EXCEPT !.dateFrom = Max(@, millis(start)),
                  !.dateTo = IF @ = NoTime THEN millis(end) ELSE Min(@, millis(end)),
                  !.images = SelectSeq(c.images, InRange)]

\* A second date filter on a collection narrows the first.
filterDate(c, start, end) ==
    LET InRange(image) == millis(start) <= image.time /\ image.time < millis(end)
    IN  [c EXCEPT !.dateFrom = Max(@, millis(start)),
                  !.dateTo = IF @ = NoTime THEN millis(end) ELSE Min(@, millis(end)),
                  !.images = SelectSeq(c.images, InRange)]

\* The script's per-image functions, by name.
Call(name, image) ==
    CASE name = "scaleModisLst" -> scaleModisLst(image)
      [] name = "maskModisLst" -> maskModisLst(image)
      [] name = "addVariablesTime" -> addVariablesTime(image)
      [] name = "addVariables" -> addVariables(image)
      [] name = "addVariablesMcd43a4" -> addVariablesMcd43a4(image)

map(c, name) ==
    [c EXCEPT !.hist = Append(c.hist, name),
              !.images = [i \in 1..Len(c.images) |-> Call(name, c.images[i])]]

selectBands(c, names) ==
    [c EXCEPT !.images = [i \in 1..Len(c.images) |-> select(c.images[i], names)]]

CollectionBands(c) ==
    IF Len(c.images) = 0 THEN {} ELSE BandNames(c.images[1])

Composite(c, bandsOf, members) ==
    [id |-> 0, time |-> NoTime, inRoi |-> TRUE, bands |-> bandsOf,
     hist |-> c.hist, members |-> members,
     region |-> c.region, dateFrom |-> c.dateFrom, dateTo |-> c.dateTo]

\* Per pixel, among the images whose quality band is unmasked there, the
\* image with the greatest value of the quality band supplies every band.
qualityMosaic(c, q) ==
    LET cand == {i \in 1..Len(c.images) : c.images[i].bands[q].mask}
        best == CHOOSE i \in cand :
                    \A j \in cand : c.images[j].bands[q].val <= c.images[i].bands[q].val
    IN  IF Len(c.images) = 0 THEN Composite(c, EmptyBands, {})
        ELSE IF cand = {} THEN
            Composite(c, [b \in CollectionBands(c) |-> Band(0, FALSE)], {})
        ELSE Composite(c, c.images[best].bands, {c.images[best].id})

RECURSIVE Insert(_, _)
Insert(s, v) ==
    IF s = <<>> THEN <<v>>
    ELSE IF v <= Head(s) THEN <<v>> \o s
    ELSE <<Head(s)>> \o Insert(Tail(s), v)

RECURSIVE SortedValues(_, _, _)
SortedValues(c, b, i) ==
    IF i > Len(c.images) THEN <<>>
    ELSE IF c.images[i].bands[b].mask
         THEN Insert(SortedValues(c, b, i + 1), c.images[i].bands[b].val)
         ELSE SortedValues(c, b, i + 1)

MedianOf(s) ==
    IF Len(s) = 0 THEN 0
    ELSE IF Len(s) % 2 = 1 THEN s[(Len(s) + 1) \div 2]
    ELSE (s[Len(s) \div 2] + s[(Len(s) \div 2) + 1]) \div 2

median(c) ==
    Composite(c,
        [b \in CollectionBands(c) |->
            LET s == SortedValues(c, b, 1) IN Band(MedianOf(s), Len(s) > 0)],
        {c.images[i].id : i \in 1..Len(c.images)})

setTimeStart(image, t) == [image EXCEPT !.time = t]

fromImages(images) ==
    [id |-> "fromImages", region |-> NoRegion, dateFrom |-> NoTime,
     dateTo |-> NoTime, hist |-> <<>>, images |-> images]

\* Band <<i, b>> of the stack stands for the band id "<i>_<b>".
toBands(c) ==
    LET keys == UNION {{<<i - 1, b>> : b \in BandNames(c.images[i])} :
                          i \in 1..Len(c.images)}
    IN  [id |-> 0, time |-> NoTime, inRoi |-> TRUE,
         bands |-> [k \in keys |-> c.images[k[1] + 1].bands[k[2]]],
         hist |-> c.hist,
         region |-> c.region, dateFrom |-> c.dateFrom, dateTo |-> c.dateTo,
         parts |-> [i \in 1..Len(c.images) |-> c.images[i].hist]]

(***************************************************************************)
(* The remote catalog: the images of the two datasets at the pixel         *)
(***************************************************************************)
MOD11A2 == "MODIS/061/MOD11A2"
MCD43A4 == "MODIS/061/MCD43A4"

ImageDates ==
    {<<2017, 12, 27>>, <<2018, 1, 1>>, <<2018, 4, 1>>, <<2020, 2, 29>>,
     <<2021, 9, 30>>, <<2021, 12, 31>>, <<2022, 1, 1>>}

QCSamples == {0, 2}

Responses == {"ok", "error"}

RECURSIVE SortedTimes(_)
SortedTimes(S) ==
    IF S = {} THEN <<>>
    ELSE LET t == CHOOSE x \in S : \A y \in S : x <= y
         IN  <<t>> \o SortedTimes(S \ {t})

LstImage(i, t, qc, inside) ==
    [id |-> i, time |-> t, inRoi |-> inside, hist |-> <<>>,
     bands |-> ("LST_Day_1km" :> Band((14000 + (100 * i)) * Fix, TRUE))
               @@ ("QC_Day" :> Band(qc, TRUE))]

NbarImage(i, t, inside) ==
    [id |-> i, time |-> t, inRoi |-> inside, hist |-> <<>>,
     bands |-> ("Nadir_Reflectance_Band1" :> Band(500 * i, TRUE))
               @@ ("Nadir_Reflectance_Band2" :> Band(3000, TRUE))]

NbarCatalog ==
    <<NbarImage(1, millis(<<2018, 1, 1>>), TRUE),
      NbarImage(2, millis(<<2018, 4, 1>>), FALSE),
      NbarImage(3, millis(<<2020, 2, 29>>), TRUE)>>

Catalogs ==
    UNION {
      LET ts == SortedTimes({millis(d) : d \in D})
      IN  {(MOD11A2 :> [i \in 1..Len(ts) |-> LstImage(i, ts[i], qc[i], ins[i])])
           @@ (MCD43A4 :> NbarCatalog) :
              qc \in [1..Len(ts) -> QCSamples], ins \in [1..Len(ts) -> BOOLEAN]}
      : D \in {X \in SUBSET ImageDates : Cardinality(X) <= MaxImages}}

(***************************************************************************)
(* Script state                                                            *)
(***************************************************************************)
Undefined == "undefined"

Done == 212

ScriptVars ==
    {"modisLST", "roi", "start_date", "end_date", "visParams",
     "recentValueComposite", "chart", "mcd43a4", "folder", "modisToBands",
     "roi_detroit", "roi_buffer", "crs", "year", "n_year", "modisLST_month",
     "monthlyLST_month_bands"}

FnIdle == [step |-> "idle"]

Entry(line, phase, op, defs, uses, dtype, data, region, params) ==
    [line |-> line, phase |-> phase, op |-> op, defs |-> defs, uses |-> uses,
     dtype |-> dtype, data |-> data, region |-> region, params |-> params]

\* var name = value;
Define(line, next, phase, name, uses, dtype, value) ==
    /\ pc = line
    /\ pc' = next
    /\ env' = [env EXCEPT ![name] = value]
    /\ log' = Append(log, Entry(line, phase, "var", {name}, uses, dtype, value,
                                NoRegion, <<>>))
    /\ UNCHANGED <<lastResp, catalog, fn>>

\* A call that sends a request to the platform; its answer is not read.
Request(line, next, phase, op, uses, dtype, data, region, params) ==
    /\ pc = line
    /\ pc' = next
    /\ log' = Append(log, Entry(line, phase, op, {}, uses, dtype, data,
                                region, params))
    /\ lastResp' \in Responses
    /\ UNCHANGED <<env, catalog, fn>>

Init ==
    /\ pc = 13
    /\ env = [v \in ScriptVars |-> Undefined]
    /\ log = <<>>
    /\ lastResp = "none"
    /\ catalog \in Catalogs
    /\ fn = FnIdle

(***************************************************************************)
(* The statements of the script, one action each, named by what they do;   *)
(* pc is the line of the next statement.                                   *)
(***************************************************************************)
ChooseDataset ==
    Define(13, 16, "param", "modisLST", {}, "collection", ImageCollection(MOD11A2))

SetRoi ==
    Define(16, 18, "param", "roi", {}, "region",
           FeatureCollection("users/QiuYuean/City_of_Detroit_Boundary"))

SetStartDate == Define(18, 19, "param", "start_date", {}, "date", start_date)

SetEndDate == Define(19, 22, "param", "end_date", {}, "date", end_date)

MapAddLayerRoi ==
    Request(22, 23, "viz", "Map.addLayer", {"roi"}, "region", env.roi, env.roi,
            [name |-> "ROI"])

MapCenterObject ==
    Request(23, 66, "viz", "Map.centerObject", {"roi"}, "region", env.roi, env.roi,
            [name |-> ""])

BuildModisLST ==
    Define(66, 73, "transform", "modisLST",
           {"modisLST", "roi", "start_date", "end_date"}, "collection",
           map(map(map(filterDate(filterBounds(env.modisLST, env.roi),
                                  env.start_date, env.end_date),
                       "scaleModisLst"),
                   "maskModisLst"),
               "addVariablesTime"))

SetVisParams_SkipComposite ==
    Define(73, 81, "param", "visParams", {}, "params",
           [bands |-> "LST_Day_1km", min |-> 0, max |-> 40,
            palette |-> <<"white", "yellow", "red">>])

SetVisParams ==
    Define(73, 80, "param", "visParams", {}, "params",
           [bands |-> "LST_Day_1km", min |-> 0, max |-> 40,
            palette |-> <<"white", "yellow", "red">>])

MakeRecentValueComposite ==
    Define(80, 81, "aggregate", "recentValueComposite", {"modisLST"}, "image",
           qualityMosaic(env.modisLST, "millis"))

MapAddLayerComposite ==
    Request(81, 99, "viz", "Map.addLayer", {"recentValueComposite", "visParams"},
            "image", env.recentValueComposite, NoRegion,
            [name |-> "recentValueComposite"])

MapAddVariables ==
    Define(99, 101, "transform", "modisLST", {"modisLST"}, "collection",
           map(env.modisLST, "addVariables"))

Chart(c, region, title) ==
    [collection |-> c, region |-> region, reducer |-> "median",
     chartType |-> "ScatterChart", title |-> title]

DefineChartLST ==
    Define(101, 111, "viz", "chart", {"modisLST", "roi"}, "chart",
           Chart(selectBands(env.modisLST, {"LST_Day_1km"}), env.roi,
                 "MOD11A2 LST Time Series (median over the ROI)"))

PrintChartLST ==
    Request(111, 128, "viz", "print", {"chart"}, "chart", env.chart,
            env.chart.region, [name |-> ""])

BuildMcd43a4 ==
    Define(128, 137, "transform", "mcd43a4", {"start_date", "end_date"},
           "collection",
           map(filterDate(ImageCollection(MCD43A4), env.start_date, env.end_date),
               "addVariablesMcd43a4"))

DefineChartNDVI ==
    Define(137, 147, "viz", "chart", {"mcd43a4", "roi"}, "chart",
           Chart(selectBands(env.mcd43a4, {"NDVI"}), env.roi,
                 "MCD43A4 NDVI Time Series (median over the ROI)"))

PrintChartNDVI_Retry ==
    /\ pc = 147
    /\ log' = Append(log, Entry(147, "viz", "print", {}, {"chart"}, "chart",
                                env.chart, env.chart.region, [name |-> ""]))
    /\ lastResp' \in Responses
    /\ pc' = IF lastResp' = "error" THEN 147 ELSE 150
    /\ UNCHANGED <<env, catalog, fn>>

PrintChartNDVI ==
    Request(147, 150, "viz", "print", {"chart"}, "chart", env.chart,
            env.chart.region, [name |-> ""])

MapAddLayerRoiAgain ==
    Request(150, 153, "viz", "Map.addLayer", {"roi"}, "region", env.roi, env.roi,
            [name |-> "ROI"])

SetFolder == Define(153, 154, "param", "folder", {}, "string", folderName)

MakeModisToBands ==
    Define(154, 155, "aggregate", "modisToBands", {"modisLST"}, "stack",
           toBands(selectBands(env.modisLST, {"LST_Day_1km"})))

PrintModisToBands ==
    Request(155, 158, "viz", "print", {"modisToBands"}, "stack", env.modisToBands,
            NoRegion, [name |-> ""])

SetRoiDetroit ==
    Define(158, 159, "param", "roi_detroit", {"roi"}, "region", first(env.roi))

SetRoiBuffer ==
    Define(159, 160, "param", "roi_buffer", {"roi_detroit"}, "region",
           bounds(buffer(env.roi_detroit, bufferMeters)))

MapAddLayerRoiBuffer ==
    Request(160, 163, "viz", "Map.addLayer", {"roi_buffer"}, "region",
            env.roi_buffer, env.roi_buffer, [name |-> "roi_buffer"])

SetCrs == Define(163, 181, "param", "crs", {}, "string", crsString)

SetYear == Define(181, 182, "param", "year", {}, "number", year)

SetNYear == Define(182, 184, "param", "n_year", {}, "number", n_year)

BuildMonthlySource_Rebound ==
    Define(184, 190, "transform", "modisLST", {"roi", "year", "n_year"},
           "collection",
           selectBands(
               map(map(filterDate(filterBounds(env.modisLST, env.roi),
                                  fromYMD(env.year, 1, 1),
                                  fromYMD(env.year + env.n_year, 1, 1)),
                       "scaleModisLst"),
                   "maskModisLst"),
               {"LST_Day_1km"}))

BuildMonthlySource ==
    Define(184, 190, "transform", "modisLST", {"roi", "year", "n_year"},
           "collection",
           selectBands(
               map(map(filterDate(filterBounds(ImageCollection(MOD11A2), env.roi),
                                  fromYMD(env.year, 1, 1),
                                  fromYMD(env.year + env.n_year, 1, 1)),
                       "scaleModisLst"),
                   "maskModisLst"),
               {"LST_Day_1km"}))

MonthlyMedian(n) ==
    LET start == advanceMonth(fromYMD(env.year, 1, 1), n)
        end == advanceMonth(start, 1)
        tmpMedian == setTimeStart(median(filterDate(env.modisLST, start, end)),
                                  millis(start))
    IN  tmpMedian

MakeMonthlyList ==
    Define(190, 196, "aggregate", "modisLST_month", {"modisLST", "year", "n_year"},
           "list", [k \in 1..(env.n_year * 12) |-> MonthlyMedian(k - 1)])

MakeMonthlyCollection ==
    Define(196, 197, "aggregate", "modisLST_month", {"modisLST_month"},
           "collection", fromImages(env.modisLST_month))

PrintMonthly ==
    Request(197, 199, "viz", "print", {"modisLST_month"}, "collection",
            env.modisLST_month, NoRegion, [name |-> "modisLST_month"])

MakeMonthlyBands ==
    Define(199, 200, "aggregate", "monthlyLST_month_bands", {"modisLST_month"},
           "stack", toBands(env.modisLST_month))

PrintMonthlyBands ==
    Request(200, 202, "viz", "print", {"monthlyLST_month_bands"}, "stack",
            env.monthlyLST_month_bands, NoRegion, [name |-> ""])

ExportParams(description, prefix) ==
    [name |-> description, folder |-> env.folder, fileNamePrefix |-> prefix,
     fileFormat |-> "GeoTIFF", scale |-> exportScale, crs |-> env.crs]

ExportToDrive_EightDay ==
    Request(202, Done, "export", "Export.image.toDrive",
            {"modisToBands", "folder", "roi_buffer", "crs"}, "stack",
            env.modisToBands, env.roi_buffer,
            ExportParams("MOD11A2_detroit_2018_2021", "mod11a2_detroit_2018_2021"))

ExportToDrive ==
    Request(202, Done, "export", "Export.image.toDrive",
            {"monthlyLST_month_bands", "folder", "roi_buffer", "crs"}, "stack",
            env.monthlyLST_month_bands, env.roi_buffer,
            ExportParams("MOD11A2_detroit_monthly_median",
                         "mod11a2_detroit_monthly_median"))

Next ==
    \/ ChooseDataset
    \/ SetRoi
    \/ SetStartDate
    \/ SetEndDate
    \/ MapAddLayerRoi
    \/ MapCenterObject
    \/ BuildModisLST
    \/ SetVisParams
    \/ MakeRecentValueComposite
    \/ MapAddLayerComposite
    \/ MapAddVariables
    \/ DefineChartLST
    \/ PrintChartLST
    \/ BuildMcd43a4
    \/ DefineChartNDVI
    \/ PrintChartNDVI
    \/ MapAddLayerRoiAgain
    \/ SetFolder
    \/ MakeModisToBands
    \/ PrintModisToBands
    \/ SetRoiDetroit
    \/ SetRoiBuffer
    \/ MapAddLayerRoiBuffer
    \/ SetCrs
    \/ SetYear
    \/ SetNYear
    \/ BuildMonthlySource
    \/ MakeMonthlyList
    \/ MakeMonthlyCollection
    \/ PrintMonthly
    \/ MakeMonthlyBands
    \/ PrintMonthlyBands
    \/ ExportToDrive

Spec == Init /\ [][Next]_vars

(***************************************************************************)
(* The helper functions on their own: bitwiseExtract applied to a number   *)
(* and maskModisLst applied to an image whose QC_Day is that number.       *)
(***************************************************************************)
QcImage(q) == LstImage(1, millis(start_date), q, TRUE)

InitFn ==
    /\ pc = 0
    /\ env = [v \in ScriptVars |-> Undefined]
    /\ log = <<>>
    /\ lastResp = "none"
    /\ catalog = (MOD11A2 :> <<>>) @@ (MCD43A4 :> <<>>)
    /\ \E v \in 0..MaxValue, f \in 0..MaxBit :
         \E t \in {x \in 0..MaxBit : x >= f - 1} :
            fn = [step |-> "init", value |-> v, fromBit |-> f, toBit |-> t,
                  result |-> 0, image |-> QcImage(v), out |-> QcImage(v)]

CallBitwiseExtract ==
    /\ fn.step = "init"
    /\ fn' = [fn EXCEPT !.step = "extracted",
                        !.result = bitwiseExtract(fn.value, fn.fromBit, fn.toBit)]
    /\ UNCHANGED <<pc, env, log, lastResp, catalog>>

CallMaskModisLst ==
    /\ fn.step = "init"
    /\ fn' = [fn EXCEPT !.step = "masked", !.out = maskModisLst(fn.image)]
    /\ UNCHANGED <<pc, env, log, lastResp, catalog>>

NextFn ==
    \/ CallBitwiseExtract
    \/ CallMaskModisLst

SpecFn == InitFn /\ [][NextFn]_vars

(***************************************************************************)
(* Properties                                                              *)
(***************************************************************************)
Roi == FeatureCollection("users/QiuYuean/City_of_Detroit_Boundary")

RoiBuffer == bounds(buffer(first(Roi), 10000))

ScriptLines ==
    <<13, 16, 18, 19, 22, 23, 66, 73, 80, 81, 99, 101, 111, 128, 137, 147, 150,
      153, 154, 155, 158, 159, 160, 163, 181, 182, 184, 190, 196, 197, 199, 200,
      202>>

EntryAt(line) == log[CHOOSE i \in DOMAIN log : log[i].line = line]

Issued(line) == \E i \in DOMAIN log : log[i].line = line

IsRequest(e) == e.op # "var"

PhaseRank(p) ==
    CASE p = "param" -> 1
      [] p = "transform" -> 2
      [] p = "aggregate" -> 3
      [] p = "viz" -> 4
      [] p = "export" -> 5

\* C1 (as stated): the statements run in phase order parameters, transform
\* chain, aggregate, visualization, export; no visualization precedes a
\* transform-chain or aggregate definition.
C1_PhaseOrder ==
    \A i, j \in DOMAIN log :
        i < j => PhaseRank(log[i].phase) <= PhaseRank(log[j].phase)

\* C1 (amended): the script is straight-line: statements are issued once each
\* in source order, every statement reads only variables bound by an earlier
\* statement, and the export is the last statement; the phases interleave.
C1_StraightLine ==
    /\ \A i \in DOMAIN log : log[i].line = ScriptLines[i]
    /\ \A i, j \in DOMAIN log : i < j => log[i].line < log[j].line
    /\ \A j \in DOMAIN log :
          log[j].uses \subseteq UNION {log[i].defs : i \in 1..(j - 1)}
    /\ \A j \in DOMAIN log :
          log[j].phase = "export" => (j = Len(log) /\ pc = Done)
    /\ pc = Done => Len(log) = Len(ScriptLines)

C1_Witness ==
    /\ pc = Done
    /\ \E i, j \in DOMAIN log :
          i < j /\ log[i].phase = "viz" /\ log[j].phase = "transform"

ImagesObey(c) ==
    \A k \in DOMAIN c.images :
        /\ c.dateFrom <= c.images[k].time
        /\ c.images[k].time < c.dateTo
        /\ (c.region = Roi => c.images[k].inRoi)

\* C2 (as stated): every image-collection query is restricted to
\* [start_date, end_date) and to roi, and every chart, map-layer and export
\* request that names a region names roi.
C2_AllUseRoiAndDates ==
    \A i \in DOMAIN log :
        /\ (log[i].phase = "transform" =>
               /\ log[i].data.region = Roi
               /\ log[i].data.dateFrom = millis(start_date)
               /\ log[i].data.dateTo = millis(end_date))
        /\ ((IsRequest(log[i]) /\ log[i].region # NoRegion) =>
               log[i].region = Roi)

\* C2 (amended): the first MOD11A2 query is restricted to roi and to
\* [start_date, end_date); the MCD43A4 query to [start_date, end_date) with no
\* region filter; the monthly MOD11A2 query to roi and to
\* [year-01-01, (year + n_year)-01-01); every query returns only images that
\* obey its filters; both charts reduce over roi; the roi_buffer layer and
\* the export use the bounds of the 10 km buffer of roi's first feature.
C2_QueryFilters ==
    /\ Issued(66) =>
          /\ EntryAt(66).data.region = Roi
          /\ EntryAt(66).data.dateFrom = millis(start_date)
          /\ EntryAt(66).data.dateTo = millis(end_date)
    /\ Issued(128) =>
          /\ EntryAt(128).data.region = NoRegion
          /\ EntryAt(128).data.dateFrom = millis(start_date)
          /\ EntryAt(128).data.dateTo = millis(end_date)
    /\ Issued(184) =>
          /\ EntryAt(184).data.region = Roi
          /\ EntryAt(184).data.dateFrom = millis(<<2018, 1, 1>>)
          /\ EntryAt(184).data.dateTo = millis(<<2022, 1, 1>>)
    /\ \A i \in DOMAIN log :
          /\ log[i].phase = "transform" => ImagesObey(log[i].data)
          /\ (IsRequest(log[i]) /\ log[i].dtype = "chart") => log[i].region = Roi
          /\ (IsRequest(log[i]) /\ log[i].line \in {160, 202}) =>
                log[i].region = RoiBuffer

C2_Witness ==
    /\ pc = Done
    /\ Len(EntryAt(66).data.images) < Len(EntryAt(184).data.images)
    /\ Len(EntryAt(66).data.images) > 0

Pow2(n) == 2 ^ n

QaKeeps(q) ==
    /\ q % 4 <= 1
    /\ (q \div 4) % 4 = 0
    /\ (q \div 64) % 4 <= 1

ClearBits45(q) == q - (((q \div 16) % 4) * 16)

\* C7: maskModisLst keeps the pixel iff bits 0-1 <= 1, bits 2-3 = 0 and
\* bits 6-7 <= 1 of QC_Day; bits 4-5 never change the mask; it adds exactly
\* the band qaMask and changes no value of the bands that were there.
C7_MaskRule ==
    fn.step = "masked" =>
        /\ fn.out.bands["qaMask"].val = (IF QaKeeps(fn.value) THEN 1 ELSE 0)
        /\ fn.out.bands["qaMask"].val
              = maskModisLst(QcImage(ClearBits45(fn.value))).bands["qaMask"].val
        /\ "qaMask" \notin BandNames(fn.image)
        /\ BandNames(fn.out) = BandNames(fn.image) \cup {"qaMask"}
        /\ \A b \in BandNames(fn.image) :
              /\ fn.out.bands[b].val = fn.image.bands[b].val
              /\ fn.out.bands[b].mask = (fn.image.bands[b].mask /\ QaKeeps(fn.value))

C7_Witness ==
    /\ fn.step = "masked"
    /\ fn.value = 113
    /\ fn.out.bands["qaMask"].val = 1
    /\ fn.out.bands["LST_Day_1km"].mask

Lst == "LST_Day_1km"

Latest(c, S) == CHOOSE i \in S : \A j \in S : c.images[j].time <= c.images[i].time

\* C4: at the pixel, recentValueComposite holds the LST value of the latest
\* image that passes the QA mask, and is masked only if no image passes.
C4_MostRecentValid ==
    pc > 80 =>
        LET c == EntryAt(66).data
            rvc == env.recentValueComposite
            passing == {i \in DOMAIN c.images : c.images[i].bands["qaMask"].val = 1}
        IN  passing # {} =>
                /\ rvc.bands[Lst].mask
                /\ rvc.bands[Lst].val = c.images[Latest(c, passing)].bands[Lst].val

\* C5: a run issues exactly one export, as its last request, with format
\* GeoTIFF, the folder, the file name prefix, region roi_buffer, scale 1000
\* and CRS EPSG:4326, and the image is the monthly-median stack.
C5_OneExportLast ==
    LET ex == {i \in DOMAIN log : log[i].op = "Export.image.toDrive"}
    IN  /\ pc # Done => ex = {}
        /\ pc = Done => Cardinality(ex) = 1
        /\ \A i \in ex :
              /\ i = Len(log)
              /\ log[i].params.fileFormat = "GeoTIFF"
              /\ log[i].params.folder = "GEO874_2023FA"
              /\ log[i].params.fileNamePrefix = "mod11a2_detroit_monthly_median"
              /\ log[i].params.scale = 1000
              /\ log[i].params.crs = "EPSG:4326"
              /\ log[i].region = RoiBuffer
              /\ log[i].data = toBands(EntryAt(196).data)
              /\ Len(log[i].data.parts) = 48
              /\ log[i].data # env.modisToBands
              /\ "modisToBands" \notin log[i].uses

C5_Witness ==
    /\ pc = Done
    /\ log[Len(log)].op = "Export.image.toDrive"
    /\ \E k \in DOMAIN log[Len(log)].data.bands : log[Len(log)].data.bands[k].mask

\* C6: whatever the platform answered, a step issues the statement at pc,
\* appends it to the issued sequence (which stays the fixed sequence of the
\* script) and moves to a later line: nothing is re-issued or skipped.
C6_NoFeedback ==
    [][/\ pc' > pc
       /\ Len(log') = Len(log) + 1
       /\ SubSeq(log', 1, Len(log)) = log
       /\ log'[Len(log')].line = pc
       /\ \A i \in DOMAIN log' : log'[i].line = ScriptLines[i]]_vars

C6_Witness ==
    /\ lastResp = "error"
    /\ pc = 80

FirstOfMonth(n) == millis(<<2018 + (n \div 12), (n % 12) + 1, 1>>)

\* C8: the monthly composite has 48 entries; entry n covers
\* [2018-01-01 + n months, 2018-01-01 + (n+1) months) and is stamped with the
\* window start; windows are disjoint, increasing and cover exactly
\* [2018-01-01, 2022-01-01); every filtered image is in exactly one window.
C8_MonthlyWindows ==
    pc > 196 =>
        LET m == env.modisLST_month.images
            src == env.modisLST
        IN  /\ Len(m) = 48
            /\ \A n \in 0..47 :
                  /\ m[n + 1].dateFrom = FirstOfMonth(n)
                  /\ m[n + 1].dateTo = FirstOfMonth(n + 1)
                  /\ m[n + 1].time = FirstOfMonth(n)
                  /\ m[n + 1].dateFrom < m[n + 1].dateTo
                  /\ n < 47 => m[n + 1].dateTo = m[n + 2].dateFrom
            /\ m[1].dateFrom = src.dateFrom
            /\ m[48].dateTo = src.dateTo
            /\ \A k \in DOMAIN src.images :
                  Cardinality({n \in 1..48 : src.images[k].id \in m[n].members}) = 1
            /\ \A n \in 1..48 : \A k \in DOMAIN src.images :
                  src.images[k].id \in m[n].members <=>
                      (m[n].dateFrom <= src.images[k].time
                       /\ src.images[k].time < m[n].dateTo)

C8_Witness ==
    /\ pc = Done
    /\ env.modisLST_month.images[26].members # {}
    /\ env.modisLST_month.images[48].members # {}

IsScaleOrMask(f) == f \in {"scaleModisLst", "maskModisLst"}

PassedOnce(h) == SelectSeq(h, IsScaleOrMask) = <<"scaleModisLst", "maskModisLst">>

SourceChecks(image) ==
    LET raw == catalog[MOD11A2][image.id].bands
    IN  /\ image.bands[Lst].val = (raw[Lst].val \div 50) - 2731500
        /\ image.bands[Lst].mask = QaKeeps(raw["QC_Day"].val)

ImagesPassedOnce(c) ==
    \A k \in DOMAIN c.images :
        Lst \in BandNames(c.images[k]) =>
            /\ PassedOnce(c.images[k].hist)
            /\ c.images[k].id > 0 => SourceChecks(c.images[k])

\* C9: every LST_Day_1km band that reaches a map layer, a chart, a print or
\* the export was scaled exactly once and masked exactly once, scaling
\* first; per-image outputs hold the once-scaled source value under the QA
\* mask of the source.
C9_ScaledAndMaskedOnce ==
    \A i \in DOMAIN log :
        IsRequest(log[i]) =>
            /\ (log[i].dtype = "image" /\ Lst \in BandNames(log[i].data)) =>
                  PassedOnce(log[i].data.hist)
            /\ log[i].dtype = "chart" => ImagesPassedOnce(log[i].data.collection)
            /\ log[i].dtype = "collection" => ImagesPassedOnce(log[i].data)
            /\ log[i].dtype = "stack" =>
                  \A k \in DOMAIN log[i].data.bands :
                      k[2] = Lst => PassedOnce(log[i].data.parts[k[1] + 1])

C9_Witness ==
    /\ pc = Done
    /\ \E k \in DOMAIN EntryAt(111).data.collection.images :
          EntryAt(111).data.collection.images[k].bands[Lst].mask
    /\ \E k \in DOMAIN EntryAt(202).data.bands :
          k[2] = Lst /\ EntryAt(202).data.bands[k].mask

====
